---- MODULE Spec2Model ----
(***************************************************************************)
(* Model of the Focus and Highlight plugin: the edit-mode focus manager    *)
(* (src/utils/editModeFocusManager.ts) and the plugin controller            *)
(* (src/unnamed/part_001).                                                  *)
(*                                                                          *)
(* A document is a sequence of lines (doc.line(n).text = d[n], doc.lines = *)
(* Len(d)); a line is a sequence of one-character strings, so that the      *)
(* regular expressions and trim() of the source are computed on the text.  *)
(***************************************************************************)
EXTENDS Integers, Sequences, FiniteSets, TLC

VARIABLES
    doc,          \* pane -> editorView.state.doc of the pane's editor
    focusState,   \* pane -> the value of focusStateField in the pane's editor
    decorations,  \* pane -> the value of focusDecorationsField in the pane's editor
    cache,        \* pane -> app.metadataCache.getFileCache of the pane's file
    metadata,     \* EditModeFocusManager.metadata
    includeBody,  \* EditModeFocusManager.includeBody
    settings,     \* FocusPlugin.settings
    call,         \* the last getFocusInfoForLine call: its lineNumber and result
    clicks,       \* the clicks handled so far on one line of the document
    lastClick,    \* FocusPlugin.lastClick
    active,       \* the pane of getActiveViewOfType(MarkdownView), or "none"
    mode,         \* pane -> view.getMode()
    previewFocus, \* pane -> FocusManager's recorded focus of the pane
    fmIncludeBody, \* FocusManager.includeBody
    fmEnabled,    \* FocusManager: init() has run and destroy() has not
    indicator,    \* FocusPlugin.indicator is not null
    indicatorText, \* FocusPlugin.indicatorEl.innerHTML
    pendingSaves, \* the saveSettings calls that await saveData
    lifecycle,    \* "constructed", "loaded" or "unloaded"
    lastUp,       \* the timing of the pointer-up just handled, else "none"
    switchedOff   \* the panes switched to preview while focused in source mode
                  \* and in which no click has set a focus since

editorVars == <<doc, focusState, decorations>>

pluginVars == <<lastClick, active, mode, previewFocus, fmIncludeBody, fmEnabled,
                indicator, indicatorText, pendingSaves, lifecycle, lastUp,
                switchedOff>>

vars == <<doc, focusState, decorations, cache, metadata, includeBody, settings,
          call, clicks, lastClick, active, mode, previewFocus, fmIncludeBody,
          fmEnabled, indicator, indicatorText, pendingSaves, lifecycle, lastUp,
          switchedOff>>

(***************************************************************************)
(* Bounds of the model.                                                    *)
(***************************************************************************)
MaxDocLen == 2      \* longest enumerated document, in lines
MaxHeadings == 2    \* most headings in an enumerated metadata
MaxClicks == 3      \* most clicks in a behaviour of SpecClicks
MaxPendingSaves == 2 \* most saveSettings calls in flight

Panes == {"A", "B"}

(***************************************************************************)
(* Text: lines, trim() and the two heading patterns.                       *)
(***************************************************************************)
Whitespace == {" ", "\t"}

\* the upper bound of the quantifier #{1,6}
MaxHashes == 6

RECURSIVE TrimLeft(_)
TrimLeft(s) ==
    IF s # <<>> /\ Head(s) \in Whitespace THEN TrimLeft(Tail(s)) ELSE s

RECURSIVE TrimRight(_)
TrimRight(s) ==
    IF s # <<>> /\ s[Len(s)] \in Whitespace
    THEN TrimRight(SubSeq(s, 1, Len(s) - 1))
    ELSE s

\* String.prototype.trim()
Trim(s) == TrimRight(TrimLeft(s))

\* s starts with k '#' characters
HashPrefix(s, k) == Len(s) >= k /\ \A i \in 1..k : s[i] = "#"

\* s[a..b] is a non-empty run of whitespace
WhitespaceRun(s, a, b) == a <= b /\ b <= Len(s) /\ \A i \in a..b : s[i] \in Whitespace

\* the ways /^(#{1,6})\s+(.+)/ matches s: <<k, j>> with k hashes, whitespace
\* up to j and at least one more character
HeadingMatches(s) ==
    {m \in (1..MaxHashes) \X (1..Len(s)) :
        /\ HashPrefix(s, m[1])
        /\ WhitespaceRun(s, m[1] + 1, m[2])
        /\ Len(s) >= m[2] + 1}

\* lineText.match(/^(#{1,6})\s+(.+)/) is not null
headingMatch(s) == HeadingMatches(s) # {}

\* headingMatch[1].length
headingLevel(s) == (CHOOSE m \in HeadingMatches(s) : TRUE)[1]

\* lineText.match(/^#{1,6}\s+/) is not null
headingPrefixMatch(s) ==
    \E k \in 1..MaxHashes : HashPrefix(s, k) /\ WhitespaceRun(s, k + 1, k + 1)

(***************************************************************************)
(* EditModeFocusInfo, and null.                                            *)
(***************************************************************************)
Null == [type |-> "null"]

HeadingInfo(from, to, level) ==
    [fromLine |-> from, toLine |-> to, type |-> "heading", level |-> level]

ParagraphInfo(from, to) ==
    [fromLine |-> from, toLine |-> to, type |-> "paragraph"]

(***************************************************************************)
(* CachedMetadata: headings (level, position.start.line) and sections      *)
(* (position.start.line, position.end.line), either of which the host may  *)
(* leave undefined; NullMetadata is a null cache entry.                    *)
(***************************************************************************)
NullMetadata ==
    [present |-> FALSE, hasHeadings |-> FALSE, headings |-> <<>>,
     hasSections |-> FALSE, sections |-> <<>>]

Heading(line, level) == [line |-> line, level |-> level]

Section(start, end) == [start |-> start, end |-> end]

(***************************************************************************)
(* EditModeFocusManager.                                                   *)
(***************************************************************************)
\* h.position.start.line + 1: the 1-based line of a metadata heading
AdjustedLineMutant(h) == h.line

AdjustedLine(h) == h.line + 1

\* headings.findIndex(h => h.position.start.line + 1 === headingLine), 0 for -1
RECURSIVE findIndexFromMutant(_, _, _)
findIndexFromMutant(headings, headingLine, i) ==
    IF i > Len(headings) THEN Len(headings)
    ELSE IF AdjustedLine(headings[i]) = headingLine THEN i
    ELSE findIndexFromMutant(headings, headingLine, i + 1)

RECURSIVE findIndexFrom(_, _, _)
findIndexFrom(headings, headingLine, i) ==
    IF i > Len(headings) THEN 0
    ELSE IF AdjustedLine(headings[i]) = headingLine THEN i
    ELSE findIndexFrom(headings, headingLine, i + 1)

findIndex(headings, headingLine) == findIndexFrom(headings, headingLine, 1)

\* the loop of lines 170-175: toLine after scanning headings[i..]
RECURSIVE scanNextHeadingMutant(_, _, _, _)
scanNextHeadingMutant(headings, level, headingLine, i) ==
    IF i > Len(headings) THEN headingLine
    ELSE IF headings[i].level < level THEN headings[i].line
    ELSE scanNextHeadingMutant(headings, level, headingLine, i + 1)

RECURSIVE scanNextHeading(_, _, _, _)
scanNextHeading(headings, level, headingLine, i) ==
    IF i > Len(headings) THEN headingLine
    ELSE IF headings[i].level <= level THEN headings[i].line
    ELSE scanNextHeading(headings, level, headingLine, i + 1)

\* lines 178-183: extend to the end of the last section
lastSectionToLineMutant(md, headingLine, toLine) ==
    IF toLine = headingLine /\ md.hasSections /\ Len(md.sections) > 0
    THEN md.sections[Len(md.sections)].end
    ELSE toLine

lastSectionToLine(md, headingLine, toLine) ==
    IF toLine = headingLine /\ md.hasSections /\ Len(md.sections) > 0
    THEN md.sections[Len(md.sections)].end + 1
    ELSE toLine

getHeadingFocusInfo(md, ib, headingLine, level) ==
    IF ~(md.present /\ md.hasHeadings)
    THEN HeadingInfo(headingLine, headingLine, level)
    ELSE LET currentHeadingIndex == findIndex(md.headings, headingLine) IN
         IF currentHeadingIndex = 0
         THEN HeadingInfo(headingLine, headingLine, level)
         ELSE IF ib
              THEN HeadingInfo(headingLine,
                       lastSectionToLine(md, headingLine,
                           scanNextHeading(md.headings, level, headingLine,
                                           currentHeadingIndex + 1)),
                       level)
              ELSE HeadingInfo(headingLine, headingLine, level)

\* the loop of lines 205-210, from index i downward
RECURSIVE findParentFromMutant(_, _, _, _)
findParentFromMutant(md, ib, lineNumber, i) ==
    IF i < 1 THEN Null
    ELSE IF AdjustedLine(md.headings[i]) <= lineNumber
         THEN getHeadingFocusInfo(md, ib, AdjustedLine(md.headings[i]),
                                  md.headings[i].level)
         ELSE findParentFromMutant(md, ib, lineNumber, i - 1)

RECURSIVE findParentFrom(_, _, _, _)
findParentFrom(md, ib, lineNumber, i) ==
    IF i < 1 THEN Null
    ELSE IF AdjustedLine(md.headings[i]) < lineNumber
         THEN getHeadingFocusInfo(md, ib, AdjustedLine(md.headings[i]),
                                  md.headings[i].level)
         ELSE findParentFrom(md, ib, lineNumber, i - 1)

findParentHeading(md, ib, lineNumber) ==
    IF ~(md.present /\ md.hasHeadings) THEN Null
    ELSE findParentFrom(md, ib, lineNumber, Len(md.headings))

\* lines 228 and 240: the loops stop at this line
stopsParagraphMutant(text) == Trim(text) = <<>>

stopsParagraph(text) == Trim(text) = <<>> \/ headingPrefixMatch(Trim(text))

RECURSIVE paragraphStart(_, _, _)
paragraphStart(d, i, fromLine) ==
    IF i < 1 THEN fromLine
    ELSE IF stopsParagraph(d[i]) THEN fromLine
    ELSE paragraphStart(d, i - 1, i)

RECURSIVE paragraphEnd(_, _, _)
paragraphEnd(d, i, toLine) ==
    IF i > Len(d) THEN toLine
    ELSE IF stopsParagraph(d[i]) THEN toLine
    ELSE paragraphEnd(d, i + 1, i)

getParagraphFocusInfo(lineNumber, d) ==
    ParagraphInfo(paragraphStart(d, lineNumber - 1, lineNumber),
                  paragraphEnd(d, lineNumber + 1, lineNumber))

getFocusInfoForLine(md, ib, lineNumber, d) ==
    IF headingMatch(d[lineNumber])
    THEN getHeadingFocusInfo(md, ib, lineNumber, headingLevel(d[lineNumber]))
    ELSE IF ~md.present
    THEN getParagraphFocusInfo(lineNumber, d)
    ELSE LET headingInfo == findParentHeading(md, ib, lineNumber) IN
         IF headingInfo # Null
         THEN IF ib THEN headingInfo ELSE getParagraphFocusInfo(lineNumber, d)
         ELSE getParagraphFocusInfo(lineNumber, d)

(***************************************************************************)
(* The editor: transactions, focusStateField and focusDecorationsField.    *)
(* A transaction carries changes (here the insertion or the deletion of    *)
(* one line) and effects. A decoration set is given by the set of classes  *)
(* each line carries.                                                      *)
(***************************************************************************)
SetFocusEffect(info) == [kind |-> "setFocus", value |-> info]

ClearFocusEffect == [kind |-> "clearFocus", value |-> Null]

NoChange == [kind |-> "none", at |-> 0, text |-> <<>>]

\* a new line with this text becomes line k
InsertLine(k, text) == [kind |-> "insert", at |-> k, text |-> text]

\* line k is removed
DeleteLine(k) == [kind |-> "delete", at |-> k, text |-> <<>>]

Transaction(changes, effects) == [changes |-> changes, effects |-> effects]

\* tr.state.doc
applyChanges(d, ch) ==
    CASE ch.kind = "insert" ->
            SubSeq(d, 1, ch.at - 1) \o <<ch.text>> \o SubSeq(d, ch.at, Len(d))
      [] ch.kind = "delete" ->
            SubSeq(d, 1, ch.at - 1) \o SubSeq(d, ch.at + 1, Len(d))
      [] OTHER -> d

\* an effect of another extension
OtherEffect == [kind |-> "other", value |-> Null]

\* focusStateField.update: the first set or clear effect decides
RECURSIVE focusStateUpdateFromMutant(_, _, _)
focusStateUpdateFromMutant(value, effects, i) ==
    IF i > Len(effects) THEN Null
    ELSE IF effects[i].kind = "setFocus" THEN effects[i].value
    ELSE IF effects[i].kind = "clearFocus" THEN Null
    ELSE focusStateUpdateFromMutant(value, effects, i + 1)

RECURSIVE focusStateUpdateFrom(_, _, _)
focusStateUpdateFrom(value, effects, i) ==
    IF i > Len(effects) THEN value
    ELSE IF effects[i].kind = "setFocus" THEN effects[i].value
    ELSE IF effects[i].kind = "clearFocus" THEN Null
    ELSE focusStateUpdateFrom(value, effects, i + 1)

focusStateUpdate(value, tr) == focusStateUpdateFrom(value, tr.effects, 1)

dimmedLineMark == "focus-plugin-dimmed-line"

focusedLineMark == "focus-plugin-focused-line"

\* Decoration.none on a document d
NoDecorations(d) == [i \in 1..Len(d) |-> {}]

\* buildDecorations
buildDecorationsMutant(d, focusInfo) ==
    [i \in 1..Len(d) |->
        IF focusInfo # Null /\ i >= focusInfo.fromLine /\ i <= focusInfo.toLine
        THEN {focusedLineMark}
        ELSE {dimmedLineMark}]

buildDecorations(d, focusInfo) ==
    IF focusInfo = Null THEN NoDecorations(d)
    ELSE [i \in 1..Len(d) |->
            IF i >= focusInfo.fromLine /\ i <= focusInfo.toLine
            THEN {focusedLineMark}
            ELSE {dimmedLineMark}]

\* decorations.map(tr.changes): a marker stays with the line it was built
\* for; an inserted line has none
mapDecorations(decos, ch) ==
    CASE ch.kind = "insert" ->
            SubSeq(decos, 1, ch.at - 1) \o <<{}>> \o SubSeq(decos, ch.at, Len(decos))
      [] ch.kind = "delete" ->
            SubSeq(decos, 1, ch.at - 1) \o SubSeq(decos, ch.at + 1, Len(decos))
      [] OTHER -> decos

\* focusDecorationsField.update
focusDecorationsUpdate(decos, tr, newDoc, newFocus) ==
    IF \E i \in 1..Len(tr.effects) : tr.effects[i].kind \in {"setFocus", "clearFocus"}
    THEN buildDecorations(newDoc, newFocus)
    ELSE mapDecorations(decos, tr.changes)

\* view.dispatch(tr) on the editor of pane p
dispatch(p, tr) ==
    LET newDoc == applyChanges(doc[p], tr.changes)
        newFocus == focusStateUpdate(focusState[p], tr)
    IN  /\ doc' = [doc EXCEPT ![p] = newDoc]
        /\ focusState' = [focusState EXCEPT ![p] = newFocus]
        /\ decorations' =
              [decorations EXCEPT
                 ![p] = focusDecorationsUpdate(decorations[p], tr, newDoc, newFocus)]

applyFocus(p, focusInfo) == dispatch(p, Transaction(NoChange, <<SetFocusEffect(focusInfo)>>))

clearFocus(p) == dispatch(p, Transaction(NoChange, <<ClearFocusEffect>>))

isLineFocused(p, lineNumber) ==
    /\ focusState[p] # Null
    /\ lineNumber >= focusState[p].fromLine
    /\ lineNumber <= focusState[p].toLine

\* doc.line(n).from: the offset of the first character of line n
RECURSIVE lineFrom(_, _)
lineFrom(d, n) == IF n = 1 THEN 0 ELSE lineFrom(d, n - 1) + Len(d[n - 1]) + 1

\* doc.length
docLength(d) == lineFrom(d, Len(d)) + Len(d[Len(d)])

\* doc.lineAt(pos).number
lineAt(d, pos) ==
    CHOOSE n \in 1..Len(d) : lineFrom(d, n) <= pos /\ pos <= lineFrom(d, n) + Len(d[n])

\* posAtCoords returns null
PosNull == -1

\* what posAtCoords can return on document d
Positions(d) == {PosNull} \cup (0..docLength(d))

\* the event target: whether it is an Element, and its class
Target(isElement, class) == [isElement |-> isElement, class |-> class]

EditorTargets ==
    {Target(TRUE, "cm-line"), Target(TRUE, "cm-gutters"), Target(TRUE, "cm-editor"),
     Target(FALSE, "")}

\* the targets of a pointer event that are elements
ElementTargets == {target \in EditorTargets : target.isElement}

(***************************************************************************)
(* FocusPlugin.handleEditModeClick on the editor of the active pane p.     *)
(***************************************************************************)
\* line 236: the clicked line lies in the current focus
inCurrentFocus(lineNumber, currentFocus) ==
    lineNumber >= currentFocus.fromLine /\ lineNumber <= currentFocus.toLine

\* lines 245-247: the click landed on the gutter or outside the content
clickedOutsideMutant(target) == target.isElement /\ target.class = "cm-gutters"

clickedOutside(target) ==
    target.isElement /\ target.class \in {"cm-gutters", "cm-editor"}

\* line 227: if (!pos) return
posIgnored(pos) == pos = PosNull \/ pos = 0

handleEditModeClick(p, target, pos) ==
    /\ metadata' = cache[p]
    /\ IF posIgnored(pos) THEN UNCHANGED editorVars
       ELSE LET lineNumber == lineAt(doc[p], pos)
                currentFocus == focusState[p]
            IN  IF /\ currentFocus # Null
                   /\ settings.clearMethod = "click-again"
                   /\ inCurrentFocus(lineNumber, currentFocus)
                THEN clearFocus(p)
                ELSE IF /\ currentFocus # Null
                        /\ settings.clearMethod = "click-outside"
                        /\ clickedOutside(target)
                THEN clearFocus(p)
                ELSE applyFocus(p, getFocusInfoForLine(cache[p], includeBody,
                                                      lineNumber, doc[p]))

(***************************************************************************)
(* Inputs: documents and metadata.                                         *)
(***************************************************************************)
BlankLine == <<>>
SpaceLine == <<" ">>
TextLine == <<"a">>
H1Line == <<"#", " ", "a">>
H2Line == <<"#", "#", " ", "a">>
IndentedHeadingLine == <<" ", "#", " ", "a">>
HashSpacesLine == <<"#", " ", " ">>
SevenHashesLine == <<"#", "#", "#", "#", "#", "#", "#", " ", "a">>

LineTexts ==
    {SpaceLine, TextLine, H1Line, H2Line, IndentedHeadingLine, HashSpacesLine}

SeqsUpTo(S, n) == UNION {[1..k -> S] : k \in 1..n}

Docs == SeqsUpTo(LineTexts, MaxDocLen)

\* ["# H1", "line A", "line B", "", "line C"]
ParagraphExampleDoc ==
    << <<"#", " ", "H", "1">>,
       <<"l", "i", "n", "e", " ", "A">>,
       <<"l", "i", "n", "e", " ", "B">>,
       BlankLine,
       <<"l", "i", "n", "e", " ", "C">> >>

\* ten lines, headings of levels a and b at lines 1 and 5
HeadingExampleDoc(a, b) ==
    << IF a = 1 THEN H1Line ELSE H2Line, TextLine, TextLine, BlankLine,
       IF b = 1 THEN H1Line ELSE H2Line,
       TextLine, SevenHashesLine, BlankLine, TextLine, TextLine >>

MetaLevels == {1, 2}

MetaLines == 0..(MaxDocLen - 1)

\* heading lists a parser produces: strictly increasing lines
HeadingLists ==
    {hs \in UNION {[1..k -> [line : MetaLines, level : MetaLevels]] : k \in 0..MaxHeadings} :
        \A i \in 1..(Len(hs) - 1) : hs[i].line < hs[i + 1].line}

\* section lists: one or two consecutive sections from line 0
SectionLists ==
    {<<>>}
    \cup {<<Section(0, e)>> : e \in MetaLines}
    \cup {<<Section(0, k), Section(k + 1, e)>> : k \in MetaLines, e \in MetaLines}

ConsistentSections(hs, ss) ==
    /\ \A i \in 1..Len(ss) : ss[i].start <= ss[i].end
    /\ \A i \in 1..(Len(ss) - 1) : ss[i].end < ss[i + 1].start
    /\ (ss # <<>> /\ hs # <<>>) => hs[Len(hs)].line <= ss[Len(ss)].end

MetadataOf(hh, hs, hsec, ss) ==
    [present |-> TRUE, hasHeadings |-> hh, headings |-> hs,
     hasSections |-> hsec, sections |-> ss]

Metadatas ==
    {NullMetadata}
    \cup {m \in {MetadataOf(hh, hs, hsec, ss) :
                    hh \in BOOLEAN, hs \in HeadingLists,
                    hsec \in BOOLEAN, ss \in SectionLists} :
            /\ ~m.hasHeadings => m.headings = <<>>
            /\ ~m.hasSections => m.sections = <<>>
            /\ ConsistentSections(m.headings, m.sections)}

\* the metadata of HeadingExampleDoc(a, b): headings at 0-based lines 0 and 4,
\* the last section ending at 0-based line 9
HeadingExampleSections ==
    <<Section(0, 0), Section(1, 2), Section(4, 4), Section(5, 6), Section(8, 9)>>

HeadingExampleMetadata(a, b, hsec) ==
    MetadataOf(TRUE, <<Heading(0, a), Heading(4, b)>>,
               hsec, IF hsec THEN HeadingExampleSections ELSE <<>>)

\* the metadata of ParagraphExampleDoc
ParagraphExampleMetadata ==
    MetadataOf(TRUE, <<Heading(0, 1)>>,
               TRUE, <<Section(0, 0), Section(1, 2), Section(4, 4)>>)

ExampleInputs ==
    ({ParagraphExampleDoc} \X {NullMetadata, ParagraphExampleMetadata})
    \cup ({HeadingExampleDoc(a, b) : a \in MetaLevels, b \in MetaLevels}
          \X ({NullMetadata}
               \cup {HeadingExampleMetadata(a, b, hsec) :
                        a \in MetaLevels, b \in MetaLevels, hsec \in BOOLEAN}))

InfoInputs == (Docs \X Metadatas) \cup ExampleInputs

(***************************************************************************)
(* The host's metadata cache: the parse of a version of the document.      *)
(***************************************************************************)
RECURSIVE headingsOf(_, _)
headingsOf(d, i) ==
    IF i > Len(d) THEN <<>>
    ELSE IF headingMatch(d[i])
         THEN <<Heading(i - 1, headingLevel(d[i]))>> \o headingsOf(d, i + 1)
         ELSE headingsOf(d, i + 1)

RECURSIVE sectionsOf(_, _)
sectionsOf(d, i) ==
    IF i > Len(d) THEN <<>>
    ELSE IF Trim(d[i]) # <<>>
         THEN <<Section(i - 1, i - 1)>> \o sectionsOf(d, i + 1)
         ELSE sectionsOf(d, i + 1)

\* the cache entry of a file whose content is d: headings and sections are
\* left undefined when there are none
SyncMetadata(d) ==
    MetadataOf(headingsOf(d, 1) # <<>>, headingsOf(d, 1),
               sectionsOf(d, 1) # <<>>, sectionsOf(d, 1))

(***************************************************************************)
(* FocusPlugin.settings.                                                   *)
(***************************************************************************)
DEFAULT_SETTINGS ==
    [clearMethod |-> "click-again", contentBehavior |-> "none",
     focusScope |-> "content", enableList |-> FALSE, focusSensitivity |-> 1600,
     indicator |-> TRUE, isEnabled |-> TRUE]

ClearMethods == {"click-again", "click-outside"}

ContentBehaviors == {"element", "content", "none"}

FocusScopes == {"block", "content"}

(***************************************************************************)
(* SpecInfo: getFocusInfoForLine on every enumerated input.                *)
(***************************************************************************)
NoFocus == [type |-> "undefined"]

\* the plugin loaded and enabled, pane A active in source mode, nothing
\* focused in preview, no save in flight
PluginLoaded ==
    /\ lastClick = 0
    /\ active = "A"
    /\ mode = [p \in Panes |-> "source"]
    /\ previewFocus = [p \in Panes |-> NoFocus]
    /\ fmIncludeBody = includeBody
    /\ fmEnabled = TRUE
    /\ indicator = TRUE
    /\ indicatorText = "Focus: on"
    /\ pendingSaves = 0
    /\ lifecycle = "loaded"
    /\ lastUp = "none"
    /\ switchedOff = {}

DefaultDoc == <<TextLine>>

NoCall == [lineNumber |-> 0, result |-> Null]

InitInfo ==
    /\ \E in \in InfoInputs :
        /\ doc = [p \in Panes |-> IF p = "A" THEN in[1] ELSE DefaultDoc]
        /\ metadata = in[2]
    /\ includeBody \in BOOLEAN
    /\ call = NoCall
    /\ focusState = [p \in Panes |-> Null]
    /\ decorations = [p \in Panes |-> NoDecorations(doc[p])]
    /\ cache = [p \in Panes |-> NullMetadata]
    /\ settings = DEFAULT_SETTINGS
    /\ clicks = <<>>
    /\ PluginLoaded

\* a call of getFocusInfoForLine(lineNumber, doc) on the manager as configured
CallGetFocusInfoForLine ==
    /\ call = NoCall
    /\ \E lineNumber \in 1..Len(doc["A"]) :
        call' = [lineNumber |-> lineNumber,
                 result |-> getFocusInfoForLine(metadata, includeBody, lineNumber, doc["A"])]
    /\ UNCHANGED <<doc, metadata, includeBody, focusState, decorations, cache,
                   settings, clicks, pluginVars>>

NextInfo == CallGetFocusInfoForLine

SpecInfo == InitInfo /\ [][NextInfo]_vars

(***************************************************************************)
(* One editor in source mode, the plugin loaded and enabled.               *)
(* SpecClicks: accepted clicks (handleEditModeClick) on a document that    *)
(* does not change, with a cache entry that may be the parse of any        *)
(* version of the file. SpecEditor: clicks, document edits and the host    *)
(* re-parsing the file.                                                    *)
(***************************************************************************)
ClickLineTexts == {TextLine, H1Line, H2Line}

ClickDocs == SeqsUpTo(ClickLineTexts, MaxDocLen)

EditLineTexts == {TextLine, H1Line}

EditDocs == SeqsUpTo(EditLineTexts, MaxDocLen)

\* a click handled: the line, and the focus state before and after
ClickRecord(line, before, after) == [line |-> line, before |-> before, after |-> after]

\* inputs: pairs of a document and the cache entry of its file
InitEditorWith(inputs) ==
    /\ \E in \in inputs :
        /\ doc = [p \in Panes |-> IF p = "A" THEN in[1] ELSE DefaultDoc]
        /\ cache = [p \in Panes |-> IF p = "A" THEN in[2] ELSE NullMetadata]
    /\ focusState = [p \in Panes |-> Null]
    /\ decorations = [p \in Panes |-> NoDecorations(doc[p])]
    /\ metadata = NullMetadata
    /\ \E cm \in ClearMethods, fs \in FocusScopes :
        /\ settings = [DEFAULT_SETTINGS EXCEPT !.clearMethod = cm, !.focusScope = fs]
        /\ includeBody = (fs = "content")
    /\ call = NoCall
    /\ clicks = <<>>
    /\ PluginLoaded

\* the cache entry is null or the parse of any version of the file
AnyCache == {NullMetadata} \cup {SyncMetadata(e) : e \in ClickDocs}

\* the cache entry is null or the parse of the file as it is
FreshCache(d) == {NullMetadata, SyncMetadata(d)}

InitClicks == InitEditorWith(ClickDocs \X AnyCache)

\* the editor specification keeps the default settings
InitEditor ==
    /\ InitEditorWith(UNION {{d} \X FreshCache(d) : d \in EditDocs})
    /\ settings = DEFAULT_SETTINGS

\* the user clicks one line of the document again and again: each pointer-up
\* reaches handleEditModeClick with a position on that line that it accepts
SameLineClick ==
    /\ Len(clicks) < MaxClicks
    /\ \E target \in EditorTargets, pos \in Positions(doc["A"]) :
        /\ ~posIgnored(pos)
        /\ clicks # <<>> => lineAt(doc["A"], pos) = clicks[1].line
        /\ handleEditModeClick("A", target, pos)
        /\ clicks' = Append(clicks, ClickRecord(lineAt(doc["A"], pos),
                                                focusState["A"], focusState'["A"]))
    /\ UNCHANGED <<cache, includeBody, settings, call, pluginVars>>

\* a pointer-up on the text of a line that reaches handleEditModeClick
EditorClick ==
    \E pos \in Positions(doc["A"]) :
        /\ handleEditModeClick("A", Target(TRUE, "cm-line"), pos)
        /\ UNCHANGED <<cache, includeBody, settings, call, clicks, pluginVars>>

\* the user inserts a line
EditorInsertLine ==
    /\ Len(doc["A"]) < MaxDocLen
    /\ \E k \in 1..(Len(doc["A"]) + 1), text \in EditLineTexts :
        dispatch("A", Transaction(InsertLine(k, text), <<>>))
    /\ UNCHANGED <<cache, metadata, includeBody, settings, call, clicks, pluginVars>>

\* the user deletes a line
EditorDeleteLine ==
    /\ Len(doc["A"]) > 1
    /\ \E k \in 1..Len(doc["A"]) :
        dispatch("A", Transaction(DeleteLine(k), <<>>))
    /\ UNCHANGED <<cache, metadata, includeBody, settings, call, clicks, pluginVars>>

\* a transaction without changes: the selection moves, or another extension
\* dispatches an effect of its own
EditorOtherTransaction ==
    /\ \E effects \in {<<>>, <<OtherEffect>>} :
        dispatch("A", Transaction(NoChange, effects))
    /\ UNCHANGED <<cache, metadata, includeBody, settings, call, clicks, pluginVars>>

\* the host has parsed the current content of the file
CacheUpdate ==
    /\ cache["A"] # SyncMetadata(doc["A"])
    /\ cache' = [cache EXCEPT !["A"] = SyncMetadata(doc["A"])]
    /\ UNCHANGED <<doc, focusState, decorations, metadata, includeBody, settings,
                   call, clicks, pluginVars>>

NextClicks == SameLineClick

SpecClicks == InitClicks /\ [][NextClicks]_vars

\* the cache entry is null or the parse of any enumerated document
StaleCache == {NullMetadata} \cup {SyncMetadata(e) : e \in EditDocs}

InitFreeClicks == InitEditorWith(EditDocs \X StaleCache)

\* a pointer-up on an element of the editor, on any line, that reaches
\* handleEditModeClick
FreeClick ==
    /\ \E target \in ElementTargets, pos \in Positions(doc["A"]) :
        handleEditModeClick("A", target, pos)
    /\ UNCHANGED <<cache, includeBody, settings, call, clicks, pluginVars>>

NextFreeClicks == FreeClick

\* clicks on any line and any element of an editor whose document and cache
\* entry (fresh, stale or null) stay as they are
SpecFreeClicks == InitFreeClicks /\ [][NextFreeClicks]_vars

NextEditor ==
    \/ EditorClick
    \/ EditorInsertLine
    \/ EditorDeleteLine
    \/ EditorOtherTransaction
    \/ CacheUpdate

SpecEditor == InitEditor /\ [][NextEditor]_vars

(***************************************************************************)
(* utils/info and utils/focusManager, as the specification describes them: *)
(* the variants of FocusInfo in preview mode and the focus the manager     *)
(* records for each pane.                                                  *)
(***************************************************************************)
PreviewInfo(type, root) == [type |-> type, root |-> root, metadata |-> NullMetadata]

\* the event targets of a rendered document: a heading, a paragraph, a list
\* item, the background of the pane, and a target that is no Element
PreviewTargets ==
    {Target(TRUE, "h1"), Target(TRUE, "p"), Target(TRUE, "li"),
     Target(TRUE, "markdown-preview-view"), Target(FALSE, "")}

\* getFocusInfo(target): the variant of the nearest structural root, or null
getFocusInfo(target) ==
    CASE target.class = "h1" -> PreviewInfo("heading", "h1")
      [] target.class = "p" -> PreviewInfo("intermediate", "p")
      [] target.class = "li" -> PreviewInfo("list", "li")
      [] OTHER -> Null

isListFocusInfo(info) == info # Null /\ info.type = "list"

isIntermediateFocusInfo(info) == info # Null /\ info.type = "intermediate"

toIntermediateFocusInfo(info) == [info EXCEPT !.type = "intermediate"]

\* FocusManager.isSameFocus: equality by root element
isSameFocus(p, info) == previewFocus[p] # NoFocus /\ previewFocus[p].root = info.root

\* FocusManager.focus, FocusManager.clear, FocusManager.clearAll
fmFocus(p, info) == previewFocus' = [previewFocus EXCEPT ![p] = info]

fmClear(p) == previewFocus' = [previewFocus EXCEPT ![p] = NoFocus]

fmClearAll == previewFocus' = [q \in Panes |-> NoFocus]

(***************************************************************************)
(* FocusPlugin: the controller.                                            *)
(***************************************************************************)
\* the time stamps of pointer events: 1600 ms apart is within the default
\* sensitivity, 1601 ms and more is beyond it
Times == {0, 1600, 3201}

\* the values of focusSensitivity in the stored settings
Sensitivities == {1600}

\* Object.assign({}, DEFAULT_SETTINGS, await this.loadData())
LoadedSettings ==
    {[DEFAULT_SETTINGS EXCEPT !.clearMethod = cm, !.contentBehavior = cb,
                              !.focusSensitivity = fs] :
        cm \in ClearMethods, cb \in ContentBehaviors, fs \in Sensitivities}

\* the document both panes show
PluginDoc == <<H1Line, TextLine>>

\* the plugin object as constructed; settings is assigned by onload
Init ==
    /\ doc = [p \in Panes |-> PluginDoc]
    /\ cache = [p \in Panes |-> SyncMetadata(PluginDoc)]
    /\ focusState = [p \in Panes |-> Null]
    /\ decorations = [p \in Panes |-> NoDecorations(doc[p])]
    /\ metadata = NullMetadata
    /\ includeBody = TRUE
    /\ settings = DEFAULT_SETTINGS
    /\ call = NoCall
    /\ clicks = <<>>
    /\ lastClick = 0
    /\ active = "A"
    /\ mode = [p \in Panes |-> "source"]
    /\ previewFocus = [p \in Panes |-> NoFocus]
    /\ fmIncludeBody = TRUE
    /\ fmEnabled = FALSE
    /\ indicator = FALSE
    /\ indicatorText = ""
    /\ pendingSaves = 0
    /\ lifecycle = "constructed"
    /\ lastUp = "none"
    /\ switchedOff = {}

\* getEditorView(): the editor of the active view, "none" for null
getEditorViewMutant == IF active = "none" THEN "none" ELSE "A"

getEditorView == active

\* getEditorView() is not null: clearFocus on the active view's editor
clearActiveEditor ==
    IF getEditorView # "none" THEN clearFocus(getEditorView) ELSE UNCHANGED editorVars

\* settingsPreprocessor(settings)
settingsPreprocessorMutant(s) ==
    /\ fmClearAll
    /\ fmIncludeBody' = (s.focusScope = "content")
    /\ includeBody' = (s.focusScope = "content")
    /\ clearActiveEditor
    /\ indicator' = (s.indicator \/ indicator)
    /\ indicatorText' = IF s.isEnabled THEN "Focus: on" ELSE "Focus: off"
    /\ fmEnabled' = s.isEnabled

settingsPreprocessor(s) ==
    /\ fmClearAll
    /\ fmIncludeBody' = (s.focusScope = "content")
    /\ includeBody' = (s.focusScope = "content")
    /\ clearActiveEditor
    /\ indicator' = s.indicator
    /\ indicatorText' = IF s.isEnabled THEN "Focus: on" ELSE "Focus: off"
    /\ fmEnabled' = s.isEnabled

\* onload: loadSettings, then the registrations
OnLoad ==
    /\ lifecycle = "constructed"
    /\ \E data \in LoadedSettings :
        /\ settings' = data
        /\ settingsPreprocessor(data)
    /\ lifecycle' = "loaded"
    /\ lastUp' = "none"
    /\ UNCHANGED switchedOff
    /\ UNCHANGED <<cache, metadata, call, clicks, lastClick, active, mode, pendingSaves>>

\* the pointerdown handler
PointerDown ==
    /\ lifecycle = "loaded"
    /\ \E t \in Times :
        /\ t >= lastClick
        /\ lastClick' = t
    /\ lastUp' = "none"
    /\ UNCHANGED switchedOff
    /\ UNCHANGED <<doc, focusState, decorations, cache, metadata, includeBody,
                   settings, call, clicks, active, mode, previewFocus, fmIncludeBody,
                   fmEnabled, indicator, indicatorText, pendingSaves, lifecycle>>

\* line 142: the pointer-up comes too long after the pointer-down
exceedsSensitivityMutant(t) == lastClick - t > settings.focusSensitivity

exceedsSensitivity(t) == t - lastClick > settings.focusSensitivity

\* lines 165-166: a Content variant is clicked and contentBehavior is "none"
ignoresContentMutant(focusInfo) == FALSE

ignoresContent(focusInfo) ==
    isIntermediateFocusInfo(focusInfo) /\ settings.contentBehavior = "none"

\* the preview branch of the pointerup handler, on the active pane p
handlePreviewClick(p, target) ==
    LET found == getFocusInfo(target)
        focusInfo == IF ~settings.enableList /\ isListFocusInfo(found)
                     THEN toIntermediateFocusInfo(found)
                     ELSE found
    IN  IF ignoresContent(focusInfo)
        THEN UNCHANGED previewFocus
        ELSE IF /\ previewFocus[p] # NoFocus
                /\ settings.clearMethod = "click-again"
                /\ focusInfo # Null
                /\ isSameFocus(p, focusInfo)
        THEN fmClear(p)
        ELSE IF /\ previewFocus[p] # NoFocus
                /\ settings.clearMethod = "click-outside"
                /\ target.class = "markdown-preview-view"
        THEN fmClear(p)
        ELSE IF isIntermediateFocusInfo(focusInfo)
        THEN IF ~cache[p].present THEN UNCHANGED previewFocus
             ELSE CASE settings.contentBehavior = "content" ->
                          fmFocus(p, [focusInfo EXCEPT !.metadata = cache[p]])
                    [] settings.contentBehavior = "element" -> fmFocus(p, focusInfo)
                    [] OTHER -> UNCHANGED previewFocus
        ELSE IF focusInfo # Null THEN fmFocus(p, focusInfo)
        ELSE UNCHANGED previewFocus

\* line 139: if (!this.settings.isEnabled) return
pluginDisabledMutant == ~fmEnabled

pluginDisabled == ~settings.isEnabled

\* what the pointer can hit while the active view is as it is
PointerTargets ==
    IF active # "none" /\ mode[active] = "preview" THEN PreviewTargets ELSE EditorTargets

PointerPositions ==
    IF active # "none" /\ mode[active] = "source" THEN Positions(doc[active]) ELSE {PosNull}

\* the pointerup handler
PointerUp ==
    /\ lifecycle = "loaded"
    /\ \E t \in Times, target \in PointerTargets, pos \in PointerPositions :
        /\ t >= lastClick
        /\ lastUp' = IF t - lastClick > settings.focusSensitivity THEN "late" ELSE "in-time"
        /\ IF \/ pluginDisabled
              \/ exceedsSensitivity(t)
              \/ ~target.isElement
              \/ active = "none"
           THEN UNCHANGED <<doc, focusState, decorations, metadata, previewFocus>>
           ELSE IF mode[active] = "preview"
           THEN /\ handlePreviewClick(active, target)
                /\ UNCHANGED <<doc, focusState, decorations, metadata>>
           ELSE /\ handleEditModeClick(getEditorView, target, pos)
                /\ UNCHANGED previewFocus
    /\ switchedOff' = {p \in switchedOff : focusState'[p] = Null}
    /\ UNCHANGED <<cache, includeBody, settings, call, clicks, lastClick, active, mode,
                   fmIncludeBody, fmEnabled, indicator, indicatorText, pendingSaves,
                   lifecycle>>

\* the command clear-focus
ClearFocusCommand ==
    /\ lifecycle = "loaded"
    /\ fmClearAll
    /\ clearActiveEditor
    /\ lastUp' = "none"
    /\ UNCHANGED switchedOff
    /\ UNCHANGED <<cache, metadata, includeBody, settings, call, clicks, lastClick,
                   active, mode, fmIncludeBody, fmEnabled, indicator, indicatorText,
                   pendingSaves, lifecycle>>

\* toggle(), from the command or a click on the indicator, up to the await of
\* saveData in saveSettings
Toggle ==
    /\ lifecycle = "loaded"
    /\ pendingSaves < MaxPendingSaves
    /\ settings' = [settings EXCEPT !.isEnabled = ~settings.isEnabled]
    /\ pendingSaves' = pendingSaves + 1
    /\ lastUp' = "none"
    /\ UNCHANGED switchedOff
    /\ UNCHANGED <<doc, focusState, decorations, cache, metadata, includeBody, call,
                   clicks, lastClick, active, mode, previewFocus, fmIncludeBody,
                   fmEnabled, indicator, indicatorText, lifecycle>>

\* the values the controls of the settings tab can give each setting
SettingValues ==
    [isEnabled |-> BOOLEAN, clearMethod |-> ClearMethods, focusScope |-> FocusScopes,
     contentBehavior |-> ContentBehaviors, enableList |-> BOOLEAN,
     indicator |-> BOOLEAN, focusSensitivity |-> {100, 1600}]

\* an onChange of the settings tab, up to the await of saveData in saveSettings
SettingsTabChange ==
    /\ lifecycle = "loaded"
    /\ pendingSaves < MaxPendingSaves
    /\ \E name \in DOMAIN SettingValues :
        \E value \in SettingValues[name] :
            /\ value # settings[name]
            /\ settings' = [settings EXCEPT ![name] = value]
    /\ pendingSaves' = pendingSaves + 1
    /\ lastUp' = "none"
    /\ UNCHANGED switchedOff
    /\ UNCHANGED <<doc, focusState, decorations, cache, metadata, includeBody, call,
                   clicks, lastClick, active, mode, previewFocus, fmIncludeBody,
                   fmEnabled, indicator, indicatorText, lifecycle>>

\* saveData has resolved: saveSettings goes on with settingsPreprocessor
SaveCompleted ==
    /\ pendingSaves > 0
    /\ settingsPreprocessor(settings)
    /\ pendingSaves' = pendingSaves - 1
    /\ lastUp' = "none"
    /\ UNCHANGED switchedOff
    /\ UNCHANGED <<cache, metadata, settings, call, clicks, lastClick, active, mode,
                   lifecycle>>

\* the layout-change handler, the modes of the panes being m
layoutChangeHandlerMutant(m) ==
    IF active = "none" THEN UNCHANGED <<doc, focusState, decorations, previewFocus>>
    ELSE IF m[active] = "preview"
    THEN fmClear(active) /\ UNCHANGED editorVars
    ELSE fmClearAll /\ UNCHANGED editorVars

layoutChangeHandler(m) ==
    IF active = "none" THEN UNCHANGED <<doc, focusState, decorations, previewFocus>>
    ELSE IF m[active] = "preview"
    THEN fmClear(active) /\ clearFocus(active)
    ELSE fmClearAll /\ UNCHANGED editorVars

\* the layout changes otherwise than by a change of mode
LayoutChange ==
    /\ lifecycle = "loaded"
    /\ layoutChangeHandler(mode)
    /\ lastUp' = "none"
    /\ UNCHANGED switchedOff
    /\ UNCHANGED <<cache, metadata, includeBody, settings, call, clicks, lastClick,
                   active, mode, fmIncludeBody, fmEnabled, indicator, indicatorText,
                   pendingSaves, lifecycle>>

\* the user switches the active view between source and preview
ViewModeChange ==
    /\ lifecycle = "loaded"
    /\ active # "none"
    /\ mode' = [mode EXCEPT ![active] = IF @ = "source" THEN "preview" ELSE "source"]
    /\ layoutChangeHandler(mode')
    /\ lastUp' = "none"
    /\ switchedOff' = IF mode[active] = "source" /\ focusState[active] # Null
                      THEN switchedOff \cup {active}
                      ELSE switchedOff
    /\ UNCHANGED <<cache, metadata, includeBody, settings, call, clicks, lastClick,
                   active, fmIncludeBody, fmEnabled, indicator, indicatorText,
                   pendingSaves, lifecycle>>

\* another leaf becomes active; changePane re-applies the recorded focus
ActiveLeafChange ==
    /\ lifecycle = "loaded"
    /\ \E q \in (Panes \cup {"none"}) \ {active} : active' = q
    /\ lastUp' = "none"
    /\ UNCHANGED switchedOff
    /\ UNCHANGED <<doc, focusState, decorations, cache, metadata, includeBody,
                   settings, call, clicks, lastClick, mode, previewFocus, fmIncludeBody,
                   fmEnabled, indicator, indicatorText, pendingSaves, lifecycle>>

\* onunload
Unload ==
    /\ lifecycle = "loaded"
    /\ fmClearAll
    /\ fmEnabled' = FALSE
    /\ clearActiveEditor
    /\ lifecycle' = "unloaded"
    /\ lastUp' = "none"
    /\ UNCHANGED switchedOff
    /\ UNCHANGED <<cache, metadata, includeBody, settings, call, clicks, lastClick,
                   active, mode, fmIncludeBody, indicator, indicatorText, pendingSaves>>

Next ==
    \/ OnLoad
    \/ PointerDown
    \/ PointerUp
    \/ ClearFocusCommand
    \/ Toggle
    \/ SaveCompleted
    \/ LayoutChange
    \/ ViewModeChange
    \/ ActiveLeafChange
    \/ Unload

Spec == Init /\ [][Next]_vars

NextSettings ==
    \/ OnLoad
    \/ Toggle
    \/ SettingsTabChange
    \/ SaveCompleted

\* the settings and their saves: the toggle command, the indicator, the
\* settings tab, and the completions of saveData in any order
SpecSettings == Init /\ [][NextSettings]_vars

\* both panes show the rendered document, the plugin loaded with any of the
\* stored settings
InitPreview ==
    /\ doc = [p \in Panes |-> PluginDoc]
    /\ cache = [p \in Panes |-> SyncMetadata(PluginDoc)]
    /\ focusState = [p \in Panes |-> Null]
    /\ decorations = [p \in Panes |-> NoDecorations(doc[p])]
    /\ metadata = NullMetadata
    /\ includeBody = TRUE
    /\ settings \in LoadedSettings
    /\ call = NoCall
    /\ clicks = <<>>
    /\ lastClick = 0
    /\ active = "A"
    /\ mode = [p \in Panes |-> "preview"]
    /\ previewFocus = [p \in Panes |-> NoFocus]
    /\ fmIncludeBody = TRUE
    /\ fmEnabled = TRUE
    /\ indicator = TRUE
    /\ indicatorText = "Focus: on"
    /\ pendingSaves = 0
    /\ lifecycle = "loaded"
    /\ lastUp = "none"
    /\ switchedOff = {}

\* an onChange of the controls of the settings tab that bear on a click in
\* preview (clear method, content behavior, enable list), up to the await of
\* saveData in saveSettings
ClickSettingsChange ==
    /\ lifecycle = "loaded"
    /\ pendingSaves < MaxPendingSaves
    /\ \E name \in {"clearMethod", "contentBehavior", "enableList"} :
        \E value \in SettingValues[name] :
            /\ value # settings[name]
            /\ settings' = [settings EXCEPT ![name] = value]
    /\ pendingSaves' = pendingSaves + 1
    /\ lastUp' = "none"
    /\ UNCHANGED switchedOff
    /\ UNCHANGED <<doc, focusState, decorations, cache, metadata, includeBody, call,
                   clicks, lastClick, active, mode, previewFocus, fmIncludeBody,
                   fmEnabled, indicator, indicatorText, lifecycle>>

NextPreview ==
    \/ PointerUp
    \/ ClickSettingsChange
    \/ SaveCompleted

\* clicks on the rendered document while the settings that bear on them are
\* changed and saved
SpecPreview == InitPreview /\ [][NextPreview]_vars

(***************************************************************************)
(* Vocabulary of the properties of getFocusInfoForLine.                    *)
(***************************************************************************)
Called == call # NoCall

\* the lines of d that getFocusInfoForLine classifies as headings
DocHeadingLines(d) == {i \in 1..Len(d) : headingMatch(d[i])}

\* the metadata lists exactly the headings of the document, with their levels
InSync(md, d) ==
    /\ md.present /\ md.hasHeadings
    /\ Len(md.headings) = Cardinality(DocHeadingLines(d))
    /\ \A i \in DocHeadingLines(d) :
          \E k \in 1..Len(md.headings) :
              md.headings[k] = Heading(i - 1, headingLevel(d[i]))

\* the clicked line is a heading of the document
HeadingCall == Called /\ headingMatch(doc["A"][call.lineNumber])

\* the level of the clicked heading line
ClickedLevel == headingLevel(doc["A"][call.lineNumber])

\* the later heading lines of level <= v in the document
LaterBoundaries(d, h, v) ==
    {n \in DocHeadingLines(d) : n > h /\ headingLevel(d[n]) <= v}

\* C1: edit mode, includeBody on, metadata in sync: a click on heading line h
\* of level v returns fromLine = h and a toLine strictly before every later
\* heading of level <= v, wherever that heading is.
C1_HeadingExtentStopsBeforeNext ==
    (HeadingCall /\ includeBody /\ InSync(metadata, doc["A"])) =>
        /\ call.result.fromLine = call.lineNumber
        /\ \A n \in LaterBoundaries(doc["A"], call.lineNumber, ClickedLevel) :
              call.result.toLine < n

\* the metadata lists exactly two headings, at 1-based lines 1 and 5
TwoHeadingsAt1And5(md) ==
    /\ md.present /\ md.hasHeadings /\ Len(md.headings) = 2
    /\ AdjustedLine(md.headings[1]) = 1
    /\ AdjustedLine(md.headings[2]) = 5

C2_Case ==
    /\ HeadingCall /\ includeBody /\ call.lineNumber = 1
    /\ TwoHeadingsAt1And5(metadata)

\* C2 as stated: headings at lines 1 (level 1) and 5 (level 2), includeBody
\* on: getFocusInfoForLine on line 1 returns fromLine = 1 and toLine = 4.
C2_Original ==
    (C2_Case /\ ClickedLevel = 1 /\ InSync(metadata, doc["A"])
       /\ metadata.headings[1].level = 1 /\ metadata.headings[2].level = 2) =>
        (call.result.fromLine = 1 /\ call.result.toLine = 4)

\* C2 amended: with headings at lines 1 and 5 and includeBody on, a click on
\* heading line 1 returns fromLine = 1, and toLine = 4 only when the heading at
\* line 5 has a level <= that of line 1; a deeper heading (levels 1 and 2) does
\* not end the extent, and toLine is the last section's end line + 1, or 1
\* when there is no section metadata.
C2_Amended ==
    C2_Case =>
        /\ call.result.fromLine = 1
        /\ call.result.toLine =
              IF metadata.headings[2].level <= ClickedLevel THEN 4
              ELSE IF metadata.hasSections /\ metadata.sections # <<>>
                   THEN metadata.sections[Len(metadata.sections)].end + 1
                   ELSE 1

C2_Witness ==
    /\ C2_Case /\ ClickedLevel = 1
    /\ metadata.headings[1].level = 1 /\ metadata.headings[2].level = 2
    /\ call.result.toLine = 10

\* the clicked heading line is listed in the metadata
FoundInMetadata ==
    /\ metadata.present /\ metadata.hasHeadings
    /\ \E k \in 1..Len(metadata.headings) :
          AdjustedLine(metadata.headings[k]) = call.lineNumber

\* no metadata heading after the clicked line has a level <= v
NoLaterBoundary(md, h, v) ==
    \A k \in 1..Len(md.headings) :
        AdjustedLine(md.headings[k]) > h => md.headings[k].level > v

C3_Case ==
    /\ HeadingCall /\ includeBody /\ FoundInMetadata
    /\ NoLaterBoundary(metadata, call.lineNumber, ClickedLevel)
    /\ metadata.hasSections /\ metadata.sections # <<>>

\* C3: includeBody on, the clicked heading is in the metadata, no later
\* heading has level <= its level, sections non-empty: fromLine is the heading
\* line and toLine is the 0-based end line of the last section + 1.
C3_ExtendsToLastSection ==
    C3_Case =>
        /\ call.result.fromLine = call.lineNumber
        /\ call.result.toLine = metadata.sections[Len(metadata.sections)].end + 1

\* the heading at line 5, the last section ending at 0-based line 9: toLine 10
C3_Witness ==
    /\ C3_Case /\ call.lineNumber = 5
    /\ metadata.sections[Len(metadata.sections)].end = 9
    /\ call.result = HeadingInfo(5, 10, ClickedLevel)

\* the text is blank after trimming
IsBlank(text) == Trim(text) = <<>>

\* a line of a paragraph: not blank and, trimmed, not starting as a heading
NonBlankNonHeading(text) ==
    LET t == Trim(text) IN
    /\ t # <<>>
    /\ ~\E k \in 1..MaxHashes :
          /\ Len(t) > k
          /\ \A i \in 1..k : t[i] = "#"
          /\ t[k + 1] \in Whitespace

\* [a, b] is the maximal run of paragraph lines of d that contains line l
IsMaximalRun(d, a, b, l) ==
    /\ 1 <= a /\ a <= l /\ l <= b /\ b <= Len(d)
    /\ \A i \in a..b : NonBlankNonHeading(d[i])
    /\ a > 1 => ~NonBlankNonHeading(d[a - 1])
    /\ b < Len(d) => ~NonBlankNonHeading(d[b + 1])

\* the metadata headings that start before line l
PrecedingHeadings(md, l) ==
    IF md.present /\ md.hasHeadings
    THEN {k \in 1..Len(md.headings) : AdjustedLine(md.headings[k]) < l}
    ELSE {}

\* the call takes the paragraph path: not a heading line, and no metadata,
\* or includeBody off, or no heading before the line
ParagraphPathCall ==
    /\ Called /\ ~HeadingCall
    /\ \/ ~metadata.present
       \/ ~includeBody
       \/ PrecedingHeadings(metadata, call.lineNumber) = {}

C5_ParagraphHasNoBlankOrHeading ==
    (Called /\ ~HeadingCall /\ call.result.type = "paragraph") =>
        \A i \in call.result.fromLine..call.result.toLine :
            NonBlankNonHeading(doc["A"][i])

\* the nearest metadata heading before line l
NearestPreceding(md, l) ==
    md.headings[CHOOSE k \in PrecedingHeadings(md, l) :
                    \A j \in PrecedingHeadings(md, l) : j <= k]

C6_Case ==
    /\ Called /\ ~HeadingCall /\ includeBody
    /\ PrecedingHeadings(metadata, call.lineNumber) # {}

\* what a click on the own line of the nearest preceding heading yields
OwnLineResult ==
    getFocusInfoForLine(metadata, includeBody,
                        AdjustedLine(NearestPreceding(metadata, call.lineNumber)),
                        doc["A"])

\* C6 as stated: includeBody on and a metadata heading before the clicked
\* non-heading line: the result is the heading-type extent of the nearest
\* preceding heading, equal to what clicking that heading's own line yields.
C6_Original ==
    C6_Case =>
        /\ call.result.type = "heading"
        /\ call.result.fromLine =
              AdjustedLine(NearestPreceding(metadata, call.lineNumber))
        /\ call.result = OwnLineResult

\* the document line of the metadata heading h is a heading of h's level
MatchesDocument(h, d) ==
    /\ AdjustedLine(h) <= Len(d)
    /\ headingMatch(d[AdjustedLine(h)])
    /\ headingLevel(d[AdjustedLine(h)]) = h.level

\* C6 amended: the result is always the heading-type extent of the nearest
\* preceding metadata heading, with that heading's line and metadata level;
\* it equals what clicking the heading's own line yields provided that line
\* of the document is a heading line of the level the metadata records.
C6_Amended ==
    C6_Case =>
        LET h == NearestPreceding(metadata, call.lineNumber) IN
        /\ call.result.type = "heading"
        /\ call.result.fromLine = AdjustedLine(h)
        /\ call.result.level = h.level
        /\ MatchesDocument(h, doc["A"]) => call.result = OwnLineResult

\* a paragraph line under the second heading returns that heading's section
C6_Witness ==
    /\ C6_Case
    /\ MatchesDocument(NearestPreceding(metadata, call.lineNumber), doc["A"])
    /\ doc["A"] = HeadingExampleDoc(1, 2) /\ call.lineNumber = 6
    /\ call.result = HeadingInfo(5, 10, 2)

(***************************************************************************)
(* Vocabulary of the properties of the click handler and of the editor.    *)
(***************************************************************************)
Least(S) == CHOOSE x \in S : \A y \in S : x <= y

\* the positions in md.headings of the heading listed at 1-based line h
ListedAt(md, h) ==
    IF md.present /\ md.hasHeadings
    THEN {k \in 1..Len(md.headings) : AdjustedLine(md.headings[k]) = h}
    ELSE {}

\* the headings listed after position k whose level is <= v
Terminators(md, k, v) ==
    {j \in (k + 1)..Len(md.headings) : md.headings[j].level <= v}

\* the extent of the heading of level v at line h as the specification
\* describes it: the single line when the heading is not listed or the body
\* is not included; else up to the line before the first later heading of
\* level <= v; else, with sections, one past the last section's end line
HeadingExtent(md, ib, h, v) ==
    IF ListedAt(md, h) = {} \/ ~ib THEN HeadingInfo(h, h, v)
    ELSE LET enders == Terminators(md, Least(ListedAt(md, h)), v) IN
         IF enders # {} THEN HeadingInfo(h, md.headings[Least(enders)].line, v)
         ELSE IF md.hasSections /\ md.sections # <<>>
              THEN HeadingInfo(h, md.sections[Len(md.sections)].end + 1, v)
              ELSE HeadingInfo(h, h, v)

\* the clicks of the behaviour are on a heading line, under click-again
C7_Case ==
    /\ settings.clearMethod = "click-again"
    /\ clicks # <<>>
    /\ headingMatch(doc["A"][clicks[1].line])
    /\ InSync(cache["A"], doc["A"])

\* C7: source mode, click-again, document and metadata unchanged and in sync:
\* from the unfocused state the first accepted click on a heading line sets
\* the focus state to that heading's extent, the second click on the line
\* makes it absent, the third sets the same extent as the first.
C7_ClickAgainCycle ==
    C7_Case =>
        /\ clicks[1].before = Null
        /\ clicks[1].after = HeadingExtent(cache["A"], includeBody, clicks[1].line,
                                           headingLevel(doc["A"][clicks[1].line]))
        /\ Len(clicks) >= 2 => clicks[2].after = Null
        /\ Len(clicks) >= 3 => clicks[3].after = clicks[1].after

\* C8: whenever the focus state is present, after any set-focus effects and
\* line insertions and deletions, every line of the document carries exactly
\* one marker: the focused-line marker when its number is in
\* [fromLine, toLine] of the focus state, the dimmed-line marker otherwise.
C8_OneMarkerPerLine ==
    focusState["A"] # Null =>
        \A i \in 1..Len(doc["A"]) :
            decorations["A"][i] =
                IF isLineFocused("A", i) THEN {focusedLineMark} ELSE {dimmedLineMark}

\* a step that completes loadSettings or saveSettings
SettingsReconciled ==
    \/ lifecycle = "constructed" /\ lifecycle' = "loaded"
    \/ pendingSaves' = pendingSaves - 1

\* C9: after every completed loadSettings or saveSettings no pane is focused:
\* the editor of every pane, active view or not, has an absent focus state.
C9_NoPaneFocusedAfterReconciliation ==
    [][SettingsReconciled => \A p \in Panes : focusState'[p] = Null]_vars

\* C10: a pointer-up whose time stamp minus that of the latest pointer-down
\* exceeds focusSensitivity, in either mode and for any target, leaves the
\* preview focus and the focus state of every editor as they were.
C10_LatePointerUpChangesNothing ==
    [][lastUp' = "late" =>
          /\ previewFocus' = previewFocus
          /\ focusState' = focusState
          /\ decorations' = decorations]_vars

\* a late pointer-up has been handled, the plugin enabled, with a focus in
\* the active pane that a click would have cleared or replaced
C10_Witness ==
    /\ lastUp = "late"
    /\ settings.isEnabled
    /\ active # "none"
    /\ \/ mode[active] = "source" /\ focusState[active] # Null
       \/ mode[active] = "preview" /\ previewFocus[active] # NoFocus

\* the step is a run of the pointerup handler
PointerUpHandled == lastUp' # "none"

\* no editor and no preview pane changes its focus or its markers
FocusUntouched ==
    /\ previewFocus' = previewFocus
    /\ focusState' = focusState
    /\ decorations' = decorations

\* C11: while settings.isEnabled is false, from the moment it becomes false
\* until it becomes true again, no pointer-up sets or clears focus in any
\* editor or preview pane, for any target, mode and timing.
C11_DisabledPointerUpChangesNothing ==
    [][(PointerUpHandled /\ ~settings.isEnabled) => FocusUntouched]_vars

\* a pointer-up within the sensitivity window has been handled, the plugin
\* disabled and its save still in flight, with a focus in the active pane
C11_Witness ==
    /\ lastUp = "in-time"
    /\ ~settings.isEnabled
    /\ active # "none"
    /\ \/ mode[active] = "source" /\ focusState[active] # Null
       \/ mode[active] = "preview" /\ previewFocus[active] # NoFocus

\* C12: with the panes in source mode, a pointer-up handled for the active
\* pane, whether it sets or clears focus, leaves the focus state and the
\* decorations of the editor of every other pane unchanged.
C12_OtherPanesUntouched ==
    [][(PointerUpHandled /\ active # "none" /\ \A p \in Panes : mode[p] = "source") =>
          \A q \in Panes \ {active} :
              /\ focusState'[q] = focusState[q]
              /\ decorations'[q] = decorations[q]]_vars

\* a click has been handled for pane B while pane A kept the focus it had
C12_Witness ==
    /\ lastUp = "in-time"
    /\ settings.isEnabled
    /\ active = "B"
    /\ \A p \in Panes : mode[p] = "source"
    /\ focusState["A"] # Null
    /\ focusState["B"] # Null

\* C13: a pane that had an edit-mode focus when it was switched from source
\* to preview has an absent focus state and no markers, in preview mode and
\* after it is switched back to source, until a click sets a focus again.
C13_ModeSwitchClearsFocus ==
    \A p \in switchedOff :
        /\ focusState[p] = Null
        /\ decorations[p] = NoDecorations(doc[p])

\* a pane focused in source mode has been switched to preview and back
C13_Witness ==
    \E p \in switchedOff : mode[p] = "source" /\ active = p

\* C14: every focus info getFocusInfoForLine returns satisfies
\* 1 <= fromLine <= toLine, for every document, clicked line, includeBody
\* value and self-consistent metadata, absent or stale metadata included.
C14_ExtentIsWellFormed ==
    Called =>
        /\ call.result # Null
        /\ 1 <= call.result.fromLine
        /\ call.result.fromLine <= call.result.toLine

\* a heading extent of several lines computed from metadata that does not
\* match the document
C14_Witness ==
    /\ Called
    /\ metadata.present
    /\ ~InSync(metadata, doc["A"])
    /\ call.result.type = "heading"
    /\ call.result.fromLine < call.result.toLine

\* the focus infos applyFocus can be given in the current state
Payloads(p) ==
    {getFocusInfoForLine(cache[p], includeBody, n, doc[p]) : n \in 1..Len(doc[p])}

\* C15: the focus state of an editor changes only through set-focus and
\* clear-focus effects: a transaction with a set-focus effect makes it the
\* payload, one with a clear-focus effect makes it absent, and a transaction
\* with neither (an edit, a selection change) leaves it, fromLine and toLine
\* included, as it was.
C15_FocusStateFollowsEffects ==
    [][focusState'["A"] # focusState["A"] =>
          /\ doc' = doc
          /\ \/ clearFocus("A") /\ focusState'["A"] = Null
             \/ \E info \in Payloads("A") :
                    applyFocus("A", info) /\ focusState'["A"] = info]_vars

\* a focus state that an edit has left as it was: the markers, which moved
\* with the lines, are no longer those built from it
C15_Witness ==
    /\ focusState["A"] # Null
    /\ decorations["A"] # buildDecorations(doc["A"], focusState["A"])

\* C16: whenever the focus state of an editor is absent, no line of it
\* carries a dimmed or a focused marker: from the creation of the editor,
\* after a clear-focus effect, and across the document edits that follow.
C16_NoFocusNoDecorations ==
    \A p \in Panes :
        focusState[p] = Null =>
            /\ Len(decorations[p]) = Len(doc[p])
            /\ \A n \in 1..Len(decorations[p]) : decorations[p][n] = {}

\* the focus state is absent after a click was handled and the document was
\* edited since
C16_Witness ==
    /\ focusState["A"] = Null
    /\ Len(doc["A"]) > 0
    /\ metadata.present
    /\ ~InSync(metadata, doc["A"])

\* the number of # characters a text starts with
LeadingHashes(s) == Cardinality({k \in 1..Len(s) : HashPrefix(s, k)})

\* no heading of the metadata starts on the 1-based line n
Unlisted(md, n) ==
    \/ ~md.present
    \/ ~md.hasHeadings
    \/ \A k \in 1..Len(md.headings) : md.headings[k].line + 1 # n

\* C17: when the text of the clicked line matches the heading pattern and no
\* heading of the metadata has start line + 1 equal to the clicked line
\* (metadata absent, without headings, or out of sync), getFocusInfoForLine
\* returns the single-line heading extent of the clicked line, with the
\* number of leading # characters as level, for both values of includeBody.
C17_UnlistedHeadingIsSingleLine ==
    (/\ Called
     /\ headingMatch(doc["A"][call.lineNumber])
     /\ Unlisted(metadata, call.lineNumber))
    => call.result = HeadingInfo(call.lineNumber, call.lineNumber,
                                 LeadingHashes(doc["A"][call.lineNumber]))

\* a heading line the metadata does not list, although it lists other
\* headings and sections, clicked with the body included
C17_Witness ==
    /\ Called
    /\ headingMatch(doc["A"][call.lineNumber])
    /\ metadata.present /\ metadata.hasHeadings /\ metadata.hasSections
    /\ Len(metadata.headings) > 0
    /\ Len(metadata.sections) > 0
    /\ Unlisted(metadata, call.lineNumber)
    /\ includeBody
    /\ call.result.type = "heading"

\* a pointer-up within the sensitivity window is handled in source mode, the
\* plugin enabled, with no focus in the active editor
AcceptedSourcePointerUp ==
    /\ PointerUpHandled
    /\ lastUp' = "in-time"
    /\ settings.isEnabled
    /\ active # "none"
    /\ mode[active] = "source"

\* C18: in source mode, the plugin enabled and no focus active, a pointer-up
\* within the sensitivity window whose coordinates map to a document position
\* pos, for every pos from 0 (the start of the document) to the length of
\* the document, leaves the focus state of the editor equal to
\* getFocusInfoForLine of the line of pos.
C18_EveryPositionFocuses ==
    [][(AcceptedSourcePointerUp /\ focusState[active] = Null) =>
          \A pos \in 0..docLength(doc[active]), target \in ElementTargets :
              handleEditModeClick(active, target, pos) =>
                  focusState'[active] =
                      getFocusInfoForLine(cache[active], includeBody,
                                          lineAt(doc[active], pos), doc[active])]_vars

\* the targets on which click-outside clears: the gutter and the outer frame
\* of the editor
OutsideTargets == {target \in ElementTargets : target.class \in {"cm-gutters", "cm-editor"}}

\* handling an accepted click on target at position pos leaves info as the
\* focus state of the editor of pane A
ClickLeaves(target, pos, info) ==
    ENABLED (/\ handleEditModeClick("A", target, pos)
             /\ focusState'["A"] = info
             /\ UNCHANGED <<cache, includeBody, settings, call, clicks, pluginVars>>)

C20_IndicatorFollowsSettings ==
    (lifecycle = "loaded" /\ pendingSaves = 0) =>
        /\ indicator <=> settings.indicator
        /\ indicatorText = IF settings.isEnabled THEN "Focus: on" ELSE "Focus: off"

\* the indicator was switched off in the settings tab and the plugin
\* disabled, and every save has completed
C20_Witness ==
    /\ lifecycle = "loaded"
    /\ pendingSaves = 0
    /\ ~settings.indicator
    /\ ~settings.isEnabled
    /\ ~indicator
    /\ indicatorText = "Focus: off"

\* the targets whose click resolves to a Content variant: a paragraph, and a
\* list item when enableList is false
ContentTargets ==
    {target \in PreviewTargets :
        /\ target.isElement
        /\ \/ target.class = "p"
           \/ target.class = "li" /\ ~settings.enableList}

\* handling a click on target in the preview of the active pane leaves the
\* recorded focus of every pane as it is
ClickKeepsPreviewFocus(target) ==
    ENABLED (/\ handlePreviewClick(active, target)
             /\ previewFocus' = previewFocus
             /\ UNCHANGED <<doc, focusState, decorations, cache, metadata, includeBody,
                            settings, call, clicks, pluginVars>>)

\* C21: in preview mode with contentBehavior "none", an accepted click that
\* resolves to a Content variant (a list item downgraded because enableList
\* is false included) is ignored: the recorded focus of the pane is neither
\* set nor cleared, under both clear methods, the pane focused or not.
C21_ContentClickIgnored ==
    (/\ active # "none"
     /\ mode[active] = "preview"
     /\ settings.contentBehavior = "none")
    => \A target \in ContentTargets : ClickKeepsPreviewFocus(target)

\* contentBehavior was set to "none" while a Content element is focused (the
\* save still in flight), and a click within the sensitivity was handled
C21_Witness ==
    /\ lastUp = "in-time"
    /\ settings.isEnabled
    /\ mode[active] = "preview"
    /\ settings.contentBehavior = "none"
    /\ settings.clearMethod = "click-again"
    /\ previewFocus[active] # NoFocus
    /\ previewFocus[active].type = "intermediate"

\* C22: the extent getFocusInfoForLine returns always contains the clicked
\* line, fromLine <= lineNumber <= toLine, for every document, both values of
\* includeBody and every shape of the metadata (absent, headings without
\* sections, empty sections, full).
C22_ExtentContainsClickedLine ==
    Called =>
        /\ call.result.fromLine <= call.lineNumber
        /\ call.lineNumber <= call.result.toLine

====
